---- MODULE Spec2Model ----
(***************************************************************************)
(* Model of the two submission evaluators of the EAR challenge:            *)
(*   src/challenge_data/challenge_1/main.py  (structured / JSON variant)   *)
(*   src/evaluation_script/main_ear.py       (tabular / CSV variant)       *)
(* A text is a sequence of one-character strings, so that the regular      *)
(* expression of validate_url, str.split and str.strip are computed on the *)
(* characters.  The network layer (requests.head, requests.post) and the   *)
(* statistics routines on an empty sample are the environment: their       *)
(* outcome is a nondeterministic choice.                                   *)
(***************************************************************************)
EXTENDS Integers, Sequences, FiniteSets, TLC

(***************************************************************************)
(* Bounds of the model.                                                    *)
(***************************************************************************)
MaxRecords == 2

(***************************************************************************)
(* Characters and texts.                                                   *)
(***************************************************************************)
Letter ==
  {"a","b","c","d","e","f","g","h","i","j","k","l","m","n","o","p","q","r",
   "s","t","u","v","w","x","y","z","A","B","C","D","E","F","G","H","I","J",
   "K","L","M","N","O","P","Q","R","S","T","U","V","W","X","Y","Z"}

Digit == {"0","1","2","3","4","5","6","7","8","9"}

\* [a-zA-Z0-9_-]
DomainChar == Letter \cup Digit \cup {"_", "-"}

\* the character class of the path group
PathChar == Letter \cup Digit \cup
            {"-", "@", ":", "%", "_", "+", ".", "~", "#", "?", "&", "/", "="}

\* the characters str.strip() removes
Whitespace == {" ", "\t", "\n", "\r"}

Sub(s, i, j) == [k \in 1..(j - i + 1) |-> s[i + k - 1]]

StartsWith(s, p) == /\ Len(s) >= Len(p)
                    /\ \A k \in 1..Len(p) : s[k] = p[k]

AllIn(s, i, j, C) == \A k \in i..j : s[k] \in C

\* positions of the character c in s
Positions(s, c) == {k \in 1..Len(s) : s[k] = c}

SetMax(S) == CHOOSE m \in S : \A k \in S : k <= m

SetMin(S) == CHOOSE m \in S : \A k \in S : m <= k

\* variant of AfterLastColon: the text after the first colon
AfterFirstColon(s) ==
  IF Positions(s, ":") = {} THEN s
  ELSE Sub(s, SetMin(Positions(s, ":")) + 1, Len(s))

(***************************************************************************)
(* url.split(":")[-1] : the text after the last colon, the whole text when *)
(* it has no colon.                                                        *)
(***************************************************************************)
AfterLastColon(s) ==
  IF Positions(s, ":") = {} THEN s
  ELSE Sub(s, SetMax(Positions(s, ":")) + 1, Len(s))

(***************************************************************************)
(* str.strip() : leading and trailing whitespace removed.                  *)
(***************************************************************************)
Strip(s) ==
  LET keep == {k \in 1..Len(s) : s[k] \notin Whitespace}
  IN  IF keep = {} THEN << >> ELSE Sub(s, SetMin(keep), SetMax(keep))

(***************************************************************************)
(* The regular expression of validate_url (scheme group, domain group,     *)
(* path group, each as commented below) as language membership.           *)
(* SchemeLens are the lengths the optional scheme group can take; the      *)
(* domain ends at the first "/" after it (no domain character is "/");     *)
(* "$" also matches before one trailing newline.                           *)
(***************************************************************************)
Http == <<"h","t","t","p",":","/","/">>

Https == <<"h","t","t","p","s",":","/","/">>

SchemeLens(s) == {0} \cup {Len(p) : p \in {q \in {Http, Https} : StartsWith(s, q)}}

\* (([a-zA-Z0-9_-]+\.)+[a-zA-Z]{2,}) on s[i..j]
DomainOk(s, i, j) ==
  LET dots == {k \in i..j : s[k] = "."}
  IN  /\ dots # {}
      /\ \A k \in i..j : s[k] \in DomainChar \cup {"."}
      /\ i \notin dots
      /\ \A k \in dots : k + 1 \notin dots
      /\ j - SetMax(dots) >= 2
      /\ AllIn(s, SetMax(dots) + 1, j, Letter)

\* the optional path group, "/" then path characters, on s[i..j];
\* i > j is the empty rest
PathOk(s, i, j) == i > j \/ (s[i] = "/" /\ AllIn(s, i + 1, j, PathChar))

\* the body of the expression on s[1..n]
BodyMatches(s, n) ==
  \E sl \in SchemeLens(s) :
    LET slashes == {k \in (sl + 1)..n : s[k] = "/"}
        dend    == IF slashes = {} THEN n ELSE SetMin(slashes) - 1
    IN  /\ sl <= n
        /\ DomainOk(s, sl + 1, dend)
        /\ PathOk(s, dend + 1, n)

RegexMatch(s) ==
  \/ BodyMatches(s, Len(s))
  \/ Len(s) >= 1 /\ s[Len(s)] = "\n" /\ BodyMatches(s, Len(s) - 1)

(***************************************************************************)
(* Python dictionaries: a sequence of <<key, value>> pairs with distinct   *)
(* keys.  A key keeps the position of its first insertion and the value of *)
(* its last one; iteration is in insertion order.                          *)
(***************************************************************************)
DictKeys(d) == [i \in 1..Len(d) |-> d[i][1]]

KeySet(d) == {d[i][1] : i \in 1..Len(d)}

DictGet(d, k) == d[CHOOSE i \in 1..Len(d) : d[i][1] = k][2]

DictPut(d, k, v) ==
  IF k \in KeySet(d)
  THEN [i \in 1..Len(d) |-> IF d[i][1] = k THEN <<k, v>> ELSE d[i]]
  ELSE Append(d, <<k, v>>)

\* {key(e): value(e) for e in pairs}, pairs being the <<key, value>> of the
\* elements in file order
RECURSIVE DictOf(_)
DictOf(pairs) ==
  IF pairs = << >> THEN << >>
  ELSE LET n == Len(pairs)
       IN  DictPut(DictOf(SubSeq(pairs, 1, n - 1)), pairs[n][1], pairs[n][2])

(***************************************************************************)
(* The statistics routines, on two label sequences of equal length.        *)
(* A score is an exact fraction <<numerator, denominator>>; <<0, 0>> is    *)
(* the not-a-number the mean of an empty sample gives.                     *)
(***************************************************************************)
Count(S) == Cardinality(S)

\* accuracy_score: the fraction of indices where the two labels agree
AccuracyScore(yt, yp) ==
  <<Count({i \in 1..Len(yt) : yt[i] = yp[i]}), Len(yt)>>

LabelsOf(yt, yp) == {yt[i] : i \in 1..Len(yt)} \cup {yp[i] : i \in 1..Len(yp)}

\* confusion_matrix: the count of each (true, predicted) pair
ConfusionMatrix(yt, yp) ==
  [c \in LabelsOf(yt, yp) \X LabelsOf(yt, yp) |->
     Count({i \in 1..Len(yt) : yt[i] = c[1] /\ yp[i] = c[2]})]

Support(yt, c) == Count({i \in 1..Len(yt) : yt[i] = c})

TruePos(yt, yp, c) == Count({i \in 1..Len(yt) : yt[i] = c /\ yp[i] = c})

Predicted(yp, c) == Count({i \in 1..Len(yp) : yp[i] = c})

RECURSIVE Product(_, _)
Product(f, S) ==
  IF S = {} THEN 1
  ELSE LET x == CHOOSE y \in S : TRUE IN f[x] * Product(f, S \ {x})

RECURSIVE Sum(_, _)
Sum(f, S) ==
  IF S = {} THEN 0
  ELSE LET x == CHOOSE y \in S : TRUE IN f[x] + Sum(f, S \ {x})

\* sum over the labels c of (weight[c] / total) * (num[c] / den[c]), a label
\* whose den is 0 scoring 0 (zero_division), as one fraction
WeightedAverage(L, weight, num, den, total) ==
  LET live == {c \in L : den[c] > 0}
      term == [c \in live |-> weight[c] * num[c] * Product(den, live \ {c})]
  IN  <<Sum(term, live), total * Product(den, live)>>

\* precision_score(average='weighted')
PrecisionScore(yt, yp) ==
  LET L == LabelsOf(yt, yp)
  IN  WeightedAverage(L, [c \in L |-> Support(yt, c)],
                      [c \in L |-> TruePos(yt, yp, c)],
                      [c \in L |-> Predicted(yp, c)], Len(yt))

\* recall_score(average='weighted')
RecallScore(yt, yp) ==
  LET L == LabelsOf(yt, yp)
  IN  WeightedAverage(L, [c \in L |-> Support(yt, c)],
                      [c \in L |-> TruePos(yt, yp, c)],
                      [c \in L |-> Support(yt, c)], Len(yt))

\* f1_score(average='weighted'): per label 2tp / (2tp + fp + fn)
F1Score(yt, yp) ==
  LET L == LabelsOf(yt, yp)
  IN  WeightedAverage(L, [c \in L |-> Support(yt, c)],
                      [c \in L |-> 2 * TruePos(yt, yp, c)],
                      [c \in L |-> Support(yt, c) + Predicted(yp, c)], Len(yt))

\* accuracy >= leaderboard_threshold, the threshold in hundredths; a
\* not-a-number compares false
AtLeast(score, threshold) ==
  score[2] > 0 /\ score[1] * 100 >= threshold * score[2]

(***************************************************************************)
(* Inputs: identifiers, labels, links and the two kinds of file.           *)
(***************************************************************************)
V1 == <<"v", "1">>

V2 == <<"v", "2">>

Ids == {V1, V2}

Cat == <<"c", "a", "t">>

Dog == <<"d", "o", "g">>

Labels == {Cat, Dog}

SeqsUpTo(S, n) == UNION {[1..k -> S] : k \in 0..n}

BareModel == <<"h", "f", ".", "c", "o", "/", "m">>

BarePdf == <<"e", ".", "c", "o", "/", "r">>

\* "https://hf.co/m"
UrlModel == Https \o BareModel

\* "https://e.co/r"
UrlPdf == Https \o BarePdf

\* "http://e.co/r"
UrlPdfHttp == Http \o BarePdf

\* "ftp://e.co/r"
UrlFtp == <<"f", "t", "p", ":", "/", "/">> \o BarePdf

\* "http://e.co/r:e.co", a path holding a colon
UrlColon == Http \o BarePdf \o <<":", "e", ".", "c", "o">>

\* "<label>: <link>", a metadata cell of the tabular format
Meta(label, link) == label \o <<":", " ">> \o link

\* a file read by json.load: json is false when the text is no JSON document
Json(obj) == [json |-> TRUE, data |-> obj]

NotJson == [json |-> FALSE, data |-> << >>]

\* the ground truth gives every id its own label; the ids come in any order,
\* any of them any number of times
TrueLabel(id) == IF id = V1 THEN Cat ELSE Dog

GtIdSeqs == SeqsUpTo(Ids, MaxRecords)

SubItems == [video_id : Ids, prediction : Labels]

GtJsonFiles ==
  {Json([predictions |->
           [i \in DOMAIN ids |->
              [video_id |-> ids[i], true_label |-> TrueLabel(ids[i])]]]) :
     ids \in GtIdSeqs}
  \cup {NotJson,
        Json([predictions |-> <<[video_id |-> V1, true_label |-> Cat],
                                [video_id |-> V1, true_label |-> Dog]>>]),
        Json([annotations |-> << >>]),
        Json([predictions |-> <<[true_label |-> Cat]>>]),
        Json([predictions |-> <<[video_id |-> V1]>>])}

\* the top-level link fields of a submission document, either one possibly
\* absent
JsonLinkFields ==
  {[HF_Link |-> UrlModel, PDF_Link |-> UrlPdf],
   [PDF_Link |-> UrlFtp],
   [HF_Link |-> BareModel]}

SubJsonFiles ==
  {Json(links @@ [predictions |-> items]) :
     links \in JsonLinkFields, items \in SeqsUpTo(SubItems, MaxRecords)}
  \cup {NotJson,
        Json([HF_Link |-> UrlModel, PDF_Link |-> UrlPdf]),
        Json([HF_Link |-> UrlModel, PDF_Link |-> UrlPdf,
              predictions |-> <<[prediction |-> Cat]>>]),
        Json([HF_Link |-> UrlModel, PDF_Link |-> UrlPdf,
              predictions |-> <<[video_id |-> V1]>>])}

\* a file read by csv.reader: a sequence of rows, a row a sequence of cells
DataRows == {<<id, label>> : id \in Ids, label \in Labels}

HeaderRow == << <<"i", "d">>, <<"l", "a", "b", "e", "l">> >>

GtCsvFiles ==
  {<<HeaderRow, HeaderRow>> \o [i \in DOMAIN ids |-> <<ids[i], TrueLabel(ids[i])>>] :
     ids \in GtIdSeqs}
  \cup {<< >>,
        <<HeaderRow, HeaderRow, <<V1, Cat>>, <<V1, Dog>> >>,
        <<HeaderRow>>,
        <<HeaderRow, <<V1, Cat>> >>,
        <<HeaderRow, HeaderRow, <<V1>> >>}

\* the first cells of the two metadata rows of a submission
CsvMetaRows ==
  {<< <<BareModel>>, <<Meta(<<"P">>, BarePdf)>> >>,
   << <<Meta(<<"M">>, UrlModel)>>, <<Meta(<<"P">>, UrlPdfHttp)>> >>,
   << <<Meta(<<"M">>, BareModel)>>, <<Meta(<<"P">>, UrlColon)>> >>}

SubCsvFiles ==
  {meta \o rows : meta \in CsvMetaRows, rows \in SeqsUpTo(DataRows, MaxRecords)}
  \cup {<< >>,
        << <<Meta(<<"M">>, BareModel)>> >>,
        << <<Meta(<<"M">>, BareModel)>>, << >> >>,
        << <<Meta(<<"M">>, BareModel)>>, <<Meta(<<"P">>, BarePdf)>>, <<V1>> >>}

\* leaderboard_threshold=0.9, in hundredths
DefaultThreshold == 90

\* the keyword arguments of a call of evaluate: <<leaderboard_threshold,
\* discord_webhook>>; main_ear.py takes neither, and without a webhook the
\* threshold decides nothing
CallArgs(v) ==
  IF v = "json"
  THEN {<<50, TRUE>>, <<DefaultThreshold, TRUE>>, <<DefaultThreshold, FALSE>>}
  ELSE {<<DefaultThreshold, FALSE>>}

\* what requests.head and requests.post can do: return a response with a
\* status code, or raise a requests.RequestException
StatusCodes == {200, 204, 404, 500}

Outcomes == [raised : {FALSE}, status_code : StatusCodes]
            \cup {[raised |-> TRUE, status_code |-> 0]}

(***************************************************************************)
(* State of one call of evaluate.  variant says which of the two modules   *)
(* runs; pc is the statement the call is at.                               *)
(***************************************************************************)
VARIABLES
  variant,                \* "json" (challenge_1/main.py) or "csv" (main_ear.py)
  ground_truth_file,      \* content of the ground-truth file
  submission_file,        \* content of the submission file
  leaderboard_threshold,  \* in hundredths
  discord_webhook,        \* TRUE when a non-empty webhook was passed
  pc,
  error,                  \* the exception that ended the call, "none" otherwise
  ground_truth_data,      \* json.load of the ground truth
  submission_data,        \* json.load of the submission
  submission_rows,        \* list(csv.reader) of the submission
  model_link,
  pdf_link,
  model_link_valid,
  pdf_link_valid,
  ground_truth,           \* dict id -> label
  submission,             \* dict id -> label
  y_true,
  y_pred,
  accuracy,
  precision,
  recall,
  f1,
  confusion,
  response,               \* << >>, or <<what requests.head did>> inside validate_url
  head_calls,             \* the calls of requests.head, in order: url and url_type
  post_calls,             \* the number of calls of requests.post
  post_raised,            \* TRUE when requests.post raised
  metric_calls,           \* the number of calls of accuracy_score
  output                  \* << >>, or <<the returned value>>

inputs == <<variant, ground_truth_file, submission_file, leaderboard_threshold,
            discord_webhook>>

loaded == <<ground_truth_data, submission_data, submission_rows>>

links == <<model_link, pdf_link>>

flags == <<model_link_valid, pdf_link_valid>>

dicts == <<ground_truth, submission>>

ys == <<y_true, y_pred>>

scores == <<accuracy, precision, recall, f1, confusion, metric_calls>>

net == <<response, head_calls, post_calls, post_raised>>

vars == <<inputs, pc, error, loaded, links, flags, dicts, ys, scores, net, output>>

Init ==
  /\ variant \in {"json", "csv"}
  /\ ground_truth_file \in IF variant = "json" THEN GtJsonFiles ELSE GtCsvFiles
  /\ submission_file \in IF variant = "json" THEN SubJsonFiles ELSE SubCsvFiles
  /\ \E args \in CallArgs(variant) :
       leaderboard_threshold = args[1] /\ discord_webhook = args[2]
  /\ pc = "load_gt"
  /\ error = "none"
  /\ ground_truth_data = << >>
  /\ submission_data = << >>
  /\ submission_rows = << >>
  /\ model_link = << >>
  /\ pdf_link = << >>
  /\ model_link_valid = -1
  /\ pdf_link_valid = -1
  /\ ground_truth = << >>
  /\ submission = << >>
  /\ y_true = << >>
  /\ y_pred = << >>
  /\ accuracy = << >>
  /\ precision = << >>
  /\ recall = << >>
  /\ f1 = << >>
  /\ confusion = << >>
  /\ response = << >>
  /\ head_calls = << >>
  /\ post_calls = 0
  /\ post_raised = FALSE
  /\ metric_calls = 0
  /\ output = << >>

\* an exception leaves evaluate
Raise(e) == pc' = "FAILED" /\ error' = e

\* the statement at p is next
Goto(p) == pc' = p /\ error' = error

(***************************************************************************)
(* Loading.                                                                *)
(***************************************************************************)
\* d.get(key, "")
JsonGet(d, key) == IF key \in DOMAIN d THEN d[key] ELSE << >>

\* the <<key, value>> pairs of the rows from the third on; a row shorter
\* than two cells raises IndexError
RowsFrom3(rows) == SubSeq(rows, 3, Len(rows))

RowsOk(rows) == \A i \in 3..Len(rows) : Len(rows[i]) >= 2

RowPairs(rows) == [i \in 1..Len(RowsFrom3(rows)) |->
                     <<RowsFrom3(rows)[i][1], RowsFrom3(rows)[i][2]>>]

\* the records of a document: "predictions" and both fields of every item
\* have to be there, KeyError otherwise
ItemsOk(d, field) ==
  /\ "predictions" \in DOMAIN d
  /\ \A i \in 1..Len(d.predictions) :
       {"video_id", field} \subseteq DOMAIN d.predictions[i]

ItemPairs(d, field) ==
  [i \in 1..Len(d.predictions) |->
     <<d.predictions[i].video_id, d.predictions[i][field]>>]

\* main.py: json.load(gt_file)
LoadGroundTruth ==
  /\ variant = "json" /\ pc = "load_gt"
  /\ IF ground_truth_file.json
     THEN ground_truth_data' = ground_truth_file.data /\ Goto("load_sub")
     ELSE UNCHANGED ground_truth_data /\ Raise("JSONDecodeError")
  /\ UNCHANGED <<inputs, submission_data, submission_rows, links, flags, dicts,
                 ys, scores, net, output>>

\* main.py: json.load(sub_file)
LoadSubmission ==
  /\ variant = "json" /\ pc = "load_sub"
  /\ IF submission_file.json
     THEN submission_data' = submission_file.data /\ Goto("validate_model")
     ELSE UNCHANGED submission_data /\ Raise("JSONDecodeError")
  /\ UNCHANGED <<inputs, ground_truth_data, submission_rows, links, flags, dicts,
                 ys, scores, net, output>>

\* main_ear.py: the ground truth dict is built while the file is read
ReadGroundTruth ==
  /\ variant = "csv" /\ pc = "load_gt"
  /\ IF RowsOk(ground_truth_file)
     THEN ground_truth' = DictOf(RowPairs(ground_truth_file)) /\ Goto("load_sub")
     ELSE UNCHANGED ground_truth /\ Raise("IndexError")
  /\ UNCHANGED <<inputs, loaded, links, flags, submission, ys, scores, net,
                 output>>

\* main_ear.py: submission_rows = list(submission_reader)
ReadSubmission ==
  /\ variant = "csv" /\ pc = "load_sub"
  /\ submission_rows' = submission_file
  /\ Goto("extract_links")
  /\ UNCHANGED <<inputs, ground_truth_data, submission_data, links, flags, dicts,
                 ys, scores, net, output>>

\* main_ear.py: submission_rows[k][0].split(":")[-1].strip() for k = 0, 1
LinkOfRow(rows, k) == Strip(AfterLastColon(rows[k][1]))

ExtractLinks ==
  /\ variant = "csv" /\ pc = "extract_links"
  /\ IF \A k \in 1..2 : Len(submission_rows) >= k /\ Len(submission_rows[k]) >= 1
     THEN /\ model_link' = LinkOfRow(submission_rows, 1)
          /\ pdf_link' = LinkOfRow(submission_rows, 2)
          /\ Goto("validate_model")
     ELSE UNCHANGED links /\ Raise("IndexError")
  /\ UNCHANGED <<inputs, loaded, flags, dicts, ys, scores, net, output>>

(***************************************************************************)
(* validate_url(url, url_type), the same code in both modules: the format  *)
(* check, then one requests.head.  which is "model" or "pdf".              *)
(***************************************************************************)
\* the url evaluate hands to validate_url
UrlArg(which) ==
  IF variant = "json"
  THEN JsonGet(submission_data, IF which = "model" THEN "HF_Link" ELSE "PDF_Link")
  ELSE IF which = "model" THEN model_link ELSE pdf_link

SetFlag(which, b) ==
  /\ model_link_valid' = IF which = "model" THEN b ELSE model_link_valid
  /\ pdf_link_valid' = IF which = "pdf" THEN b ELSE pdf_link_valid

SetLink(which, url) ==
  /\ model_link' = IF which = "model" THEN url ELSE model_link
  /\ pdf_link' = IF which = "pdf" THEN url ELSE pdf_link

At(which, p) == pc = p \o "_" \o which

AfterValidate(which) == IF which = "model" THEN "validate_pdf" ELSE "check_links"

\* variant of FormatRejected: the expression without its "^" anchor, so that
\* a matching tail of the url is enough
FormatRejectedUnanchored(url) ==
  ~\E i \in 1..(Len(url) + 1) : RegexMatch(Sub(url, i, Len(url)))

\* if not re.match(regex, url)
FormatRejected(url) == ~RegexMatch(url)

\* the format check: a url that does not match returns False at once
ValidateUrlFormat(which) ==
  /\ At(which, "validate")
  /\ SetLink(which, UrlArg(which))
  /\ IF FormatRejected(UrlArg(which))
     THEN SetFlag(which, 0) /\ Goto(AfterValidate(which))
     ELSE UNCHANGED flags /\ Goto("head_" \o which)
  /\ UNCHANGED <<inputs, loaded, dicts, ys, scores, net, output>>

\* response = requests.head(url, allow_redirects=True, timeout=10)
ValidateUrlHead(which) ==
  /\ At(which, "head")
  /\ \E o \in Outcomes : response' = <<o>>
  /\ head_calls' = Append(head_calls, [url |-> UrlArg(which), url_type |-> which])
  /\ Goto("status_" \o which)
  /\ UNCHANGED <<inputs, loaded, links, flags, dicts, ys, scores, post_calls,
                 post_raised, output>>

\* variant of ProbeOk: any status below 400 accepted (response.ok)
ProbeOkBelow400(o) == ~o.raised /\ o.status_code < 400

\* response.status_code == 200; a RequestException is caught and gives False
ProbeOk(o) == ~o.raised /\ o.status_code = 200

\* the return value of validate_url after the probe, as the 1 or 0 evaluate
\* keeps
ValidateUrlStatus(which) ==
  /\ At(which, "status")
  /\ SetFlag(which, IF ProbeOk(response[1]) THEN 1 ELSE 0)
  /\ response' = << >>
  /\ Goto(AfterValidate(which))
  /\ UNCHANGED <<inputs, loaded, links, dicts, ys, scores, head_calls, post_calls,
                 post_raised, output>>

\* variant of LinksFatal: the raise of main.py not commented out
LinksFatalInBoth(v) == TRUE

\* whether an invalid link raises: the raise is commented out in main.py
LinksFatal(v) == v = "csv"

\* if model_link_valid == 0 or pdf_link_valid == 0: raise or print
CheckLinks ==
  /\ pc = "check_links"
  /\ IF LinksFatal(variant) /\ (model_link_valid = 0 \/ pdf_link_valid = 0)
     THEN Raise("ValueError(links)")
     ELSE Goto(IF variant = "json" THEN "parse_gt" ELSE "parse_sub")
  /\ UNCHANGED <<inputs, loaded, links, flags, dicts, ys, scores, net, output>>

(***************************************************************************)
(* Building the two dicts, the key check and the label sequences.          *)
(***************************************************************************)
\* main.py: ground_truth = {item["video_id"]: item["true_label"] ...}
ParseGroundTruth ==
  /\ variant = "json" /\ pc = "parse_gt"
  /\ IF ItemsOk(ground_truth_data, "true_label")
     THEN /\ ground_truth' = DictOf(ItemPairs(ground_truth_data, "true_label"))
          /\ Goto("parse_sub")
     ELSE UNCHANGED ground_truth /\ Raise("KeyError")
  /\ UNCHANGED <<inputs, loaded, links, flags, submission, ys, scores, net,
                 output>>

\* main.py: submission = {item["video_id"]: item["prediction"] ...}
ParseSubmission ==
  /\ variant = "json" /\ pc = "parse_sub"
  /\ IF ItemsOk(submission_data, "prediction")
     THEN /\ submission' = DictOf(ItemPairs(submission_data, "prediction"))
          /\ Goto("reconcile")
     ELSE UNCHANGED submission /\ Raise("KeyError")
  /\ UNCHANGED <<inputs, loaded, links, flags, ground_truth, ys, scores, net,
                 output>>

\* main_ear.py: submission = {row[0]: row[1] ... if idx >= 2}
ParseSubmissionRows ==
  /\ variant = "csv" /\ pc = "parse_sub"
  /\ IF RowsOk(submission_rows)
     THEN submission' = DictOf(RowPairs(submission_rows)) /\ Goto("reconcile")
     ELSE UNCHANGED submission /\ Raise("IndexError")
  /\ UNCHANGED <<inputs, loaded, links, flags, ground_truth, ys, scores, net,
                 output>>

\* variant of KeysDiffer: the numbers of keys compared, not the keys
KeysDifferInNumber(sub, gt) == Len(sub) # Len(gt)

\* set(submission.keys()) != set(ground_truth.keys())
KeysDiffer(sub, gt) == KeySet(sub) # KeySet(gt)

Reconcile ==
  /\ pc = "reconcile"
  /\ IF KeysDiffer(submission, ground_truth)
     THEN Raise("ValueError(keys)")
     ELSE Goto("extract")
  /\ UNCHANGED <<inputs, loaded, links, flags, dicts, ys, scores, net, output>>

\* [d[video_id] for video_id in d]: the values in the dict's own order
ValuesInOrder(d) == [i \in 1..Len(d) |-> DictGet(d, DictKeys(d)[i])]

ExtractLabels ==
  /\ pc = "extract"
  /\ y_true' = ValuesInOrder(ground_truth)
  /\ y_pred' = ValuesInOrder(submission)
  /\ Goto("metrics")
  /\ UNCHANGED <<inputs, loaded, links, flags, dicts, scores, net, output>>

(***************************************************************************)
(* Scoring, the notification and the returned value.                       *)
(***************************************************************************)
\* the statistics routines raise on sequences of different lengths; on an
\* empty sample they raise or return, depending on the routine and its
\* version
MetricsMayRaise(yt, yp) ==
  IF Len(yt) # Len(yp) THEN {TRUE}
  ELSE IF Len(yt) = 0 THEN BOOLEAN ELSE {FALSE}

ComputeMetrics ==
  /\ pc = "metrics"
  /\ metric_calls' = metric_calls + 1
  /\ \E raises \in MetricsMayRaise(y_true, y_pred) :
       IF raises
       THEN /\ Raise("ValueError(metrics)")
            /\ UNCHANGED <<accuracy, precision, recall, f1, confusion>>
       ELSE /\ accuracy' = AccuracyScore(y_true, y_pred)
            /\ f1' = F1Score(y_true, y_pred)
            /\ IF variant = "csv"
               THEN /\ precision' = PrecisionScore(y_true, y_pred)
                    /\ recall' = RecallScore(y_true, y_pred)
                    /\ confusion' = ConfusionMatrix(y_true, y_pred)
               ELSE UNCHANGED <<precision, recall, confusion>>
            /\ Goto(IF variant = "json" THEN "notify" ELSE "return")
  /\ UNCHANGED <<inputs, loaded, links, flags, dicts, ys, net, output>>

\* variant of NotifyDue: strictly above the threshold
NotifyDueStrict(acc, threshold, webhook) ==
  acc[2] > 0 /\ acc[1] * 100 > threshold * acc[2] /\ webhook

\* if accuracy >= leaderboard_threshold and discord_webhook:
NotifyDue(acc, threshold, webhook) == AtLeast(acc, threshold) /\ webhook

\* variant of AfterPost: the RequestException not caught
AfterPostUncaught(o) == IF o.raised THEN "FAILED" ELSE "assemble"

\* the statement after the try: a RequestException of requests.post is
\* caught and printed
AfterPost(o) == "assemble"

Notify ==
  /\ variant = "json" /\ pc = "notify"
  /\ IF NotifyDue(accuracy, leaderboard_threshold, discord_webhook)
     THEN \E o \in Outcomes :
            /\ post_calls' = post_calls + 1
            /\ post_raised' = o.raised
            /\ pc' = AfterPost(o)
            /\ error' = IF AfterPost(o) = "FAILED" THEN "RequestException"
                        ELSE error
     ELSE UNCHANGED <<post_calls, post_raised>> /\ Goto("assemble")
  /\ UNCHANGED <<inputs, loaded, links, flags, dicts, ys, scores, response,
                 head_calls, output>>

\* main.py: the "train_split" entry of output["result"]
TrainSplit == [accuracy |-> accuracy, f1_score |-> f1,
               model_link_valid |-> model_link_valid,
               pdf_link_valid |-> pdf_link_valid]

AssembleResult ==
  /\ variant = "json" /\ pc = "assemble"
  /\ output' = <<[result |-> <<[train_split |-> TrainSplit]>>,
                  submission_result |-> TrainSplit]>>
  /\ Goto("DONE")
  /\ UNCHANGED <<inputs, loaded, links, flags, dicts, ys, scores, net>>

\* main_ear.py: the returned dict
ReturnMetrics ==
  /\ variant = "csv" /\ pc = "return"
  /\ output' = <<[accuracy |-> accuracy, precision |-> precision,
                  recall |-> recall, f1_score |-> f1,
                  confusion_matrix |-> confusion,
                  model_link_valid |-> model_link_valid,
                  pdf_link_valid |-> pdf_link_valid]>>
  /\ Goto("DONE")
  /\ UNCHANGED <<inputs, loaded, links, flags, dicts, ys, scores, net>>

Next ==
  \/ LoadGroundTruth
  \/ LoadSubmission
  \/ ReadGroundTruth
  \/ ReadSubmission
  \/ ExtractLinks
  \/ \E which \in {"model", "pdf"} : ValidateUrlFormat(which)
  \/ \E which \in {"model", "pdf"} : ValidateUrlHead(which)
  \/ \E which \in {"model", "pdf"} : ValidateUrlStatus(which)
  \/ CheckLinks
  \/ ParseGroundTruth
  \/ ParseSubmission
  \/ ParseSubmissionRows
  \/ Reconcile
  \/ ExtractLabels
  \/ ComputeMetrics
  \/ Notify
  \/ AssembleResult
  \/ ReturnMetrics

Spec == Init /\ [][Next]_vars

(***************************************************************************)
(* Properties.                                                             *)
(***************************************************************************)
Kinds == {"model", "pdf"}

Flag(which) == IF which = "model" THEN model_link_valid ELSE pdf_link_valid

Link(which) == IF which = "model" THEN model_link ELSE pdf_link

\* validate_url has returned for this link
Validated(which) == Flag(which) # -1

\* the number of requests.head calls made for this link
HeadCount(which) ==
  Cardinality({i \in 1..Len(head_calls) : head_calls[i].url_type = which})

\* the ids of the records of the two files, as far as the files hold records
GtIds ==
  IF variant = "json"
  THEN IF ground_truth_file.json /\ "predictions" \in DOMAIN ground_truth_file.data
       THEN {it.video_id : it \in {ground_truth_file.data.predictions[i] :
               i \in {j \in 1..Len(ground_truth_file.data.predictions) :
                 "video_id" \in DOMAIN ground_truth_file.data.predictions[j]}}}
       ELSE {}
  ELSE {ground_truth_file[i][1] :
          i \in {j \in 3..Len(ground_truth_file) : Len(ground_truth_file[j]) >= 1}}

SubIds ==
  IF variant = "json"
  THEN IF submission_file.json /\ "predictions" \in DOMAIN submission_file.data
       THEN {it.video_id : it \in {submission_file.data.predictions[i] :
               i \in {j \in 1..Len(submission_file.data.predictions) :
                 "video_id" \in DOMAIN submission_file.data.predictions[j]}}}
       ELSE {}
  ELSE {submission_file[i][1] :
          i \in {j \in 3..Len(submission_file) : Len(submission_file[j]) >= 1}}

\* the statements after the key check
PastReconcile == {"extract", "metrics", "notify", "assemble", "return", "DONE"}

\* C1: the sequences handed to the metric routines have the same length and,
\* at every index, hold the ground-truth label and the submitted label of
\* one and the same id (the id the ground truth has at that index).
C1_SameIdAtSameIndex ==
  pc = "metrics" =>
    /\ Len(y_true) = Len(y_pred)
    /\ \A i \in 1..Len(y_true) :
         LET id == DictKeys(ground_truth)[i]
         IN  /\ y_true[i] = DictGet(ground_truth, id)
             /\ y_pred[i] = DictGet(submission, id)

C2_NeverScored ==
  /\ GtIds # SubIds =>
       /\ pc \notin PastReconcile
       /\ metric_calls = 0
       /\ post_calls = 0
       /\ output = << >>
  /\ error = "ValueError(keys)" => GtIds # SubIds

C2_RaisesAtCheck ==
  (pc = "reconcile" /\ GtIds # SubIds) =>
    (pc' = "FAILED" /\ error' = "ValueError(keys)" /\ output' = << >>)

\* C2: when the id sets of the two files differ the call never gets past the
\* key check: no metric routine is called, nothing is posted, nothing is
\* returned, and a call that reaches the key check leaves it with the error
\* raised; and the key check raises only when the id sets differ, whatever
\* the order of the records and however often an id occurs.
C2_KeyMismatchFails == []C2_NeverScored /\ [][C2_RaisesAtCheck]_vars

C2_Witness ==
  /\ pc = "FAILED" /\ error = "ValueError(keys)"
  /\ GtIds # {} /\ SubIds # {} /\ GtIds # SubIds

\* C3: a url that does not match the format rule makes validate_url return
\* false without any requests.head call for it, and every url handed to
\* requests.head matches the format rule.
C3_NoProbeForBadFormat ==
  /\ \A which \in Kinds :
       (Validated(which) /\ ~RegexMatch(Link(which))) =>
         (Flag(which) = 0 /\ HeadCount(which) = 0)
  /\ \A i \in 1..Len(head_calls) : RegexMatch(head_calls[i].url)

C3_Witness ==
  /\ pc = "DONE"
  /\ model_link = << >> /\ model_link_valid = 0
  /\ pdf_link = UrlFtp /\ pdf_link_valid = 0
  /\ head_calls = << >>

C4_OneProbe ==
  \A which \in Kinds :
    /\ HeadCount(which) <= 1
    /\ (Validated(which) /\ RegexMatch(Link(which))) => HeadCount(which) = 1

C4_StatusStep ==
  \A which \in Kinds :
    At(which, "status") =>
      /\ Flag(which)' \in {0, 1}
      /\ Flag(which)' = 1 <=>
           (~response[1].raised /\ response[1].status_code = 200)
      /\ pc' # "FAILED"
      /\ head_calls' = head_calls

\* C4: a url that matches the format rule is probed exactly once, and the
\* result is true exactly when the probe returned status 200: every other
\* status and a raised RequestException give false, and none of them ends
\* the call.
C4_ProbeDecides == []C4_OneProbe /\ [][C4_StatusStep]_vars

C4_Witness ==
  /\ pc = "DONE"
  /\ RegexMatch(model_link) /\ HeadCount("model") = 1 /\ model_link_valid = 1
  /\ RegexMatch(pdf_link) /\ HeadCount("pdf") = 1 /\ pdf_link_valid = 0

\* C5: a call of the structured evaluate that returns has posted exactly one
\* notification when the accuracy is at least the threshold and a webhook
\* was given, and none otherwise; a call that fails has posted none.
C5_NotifyExactlyWhenDue ==
  /\ post_calls \in {0, 1}
  /\ pc = "FAILED" => post_calls = 0
  /\ pc = "DONE" =>
       post_calls =
         IF /\ variant = "json"
            /\ discord_webhook
            /\ accuracy[2] > 0
            /\ accuracy[1] * 100 >= leaderboard_threshold * accuracy[2]
         THEN 1 ELSE 0

C5_Witness ==
  /\ pc = "DONE" /\ post_calls = 1
  /\ accuracy = <<1, 2>> /\ leaderboard_threshold = 50

\* C6: once the notification was attempted, whether it was delivered or
\* raised, the call does not fail and returns the payload computed from the
\* label sequences and the two link flags.
C6_NotifyFailureSwallowed ==
  /\ post_calls > 0 => (pc \in {"assemble", "DONE"} /\ error = "none")
  /\ (pc = "DONE" /\ variant = "json") =>
       LET payload == [accuracy |-> AccuracyScore(y_true, y_pred),
                       f1_score |-> F1Score(y_true, y_pred),
                       model_link_valid |-> model_link_valid,
                       pdf_link_valid |-> pdf_link_valid]
       IN  output = <<[result |-> <<[train_split |-> payload]>>,
                       submission_result |-> payload]>>

C6_Witness == pc = "DONE" /\ post_raised /\ output # << >>

\* C7: in the tabular evaluate an invalid link ends the call before the key
\* check and before any metric, so a returned result carries two flags of
\* 1; in the structured evaluate an invalid link never ends the call, and
\* the returned flags are 1 for a link that validated and 0 for one that did
\* not.
C7_LinkPolicy ==
  /\ variant = "csv" =>
       /\ (model_link_valid = 0 \/ pdf_link_valid = 0) =>
            /\ pc \in {"validate_pdf", "head_pdf", "status_pdf", "check_links",
                       "FAILED"}
            /\ pc = "FAILED" => error = "ValueError(links)"
            /\ metric_calls = 0
            /\ output = << >>
       /\ pc = "DONE" =>
            output[1].model_link_valid = 1 /\ output[1].pdf_link_valid = 1
  /\ variant = "json" =>
       /\ error # "ValueError(links)"
       /\ pc = "DONE" =>
            /\ output[1].submission_result.model_link_valid = model_link_valid
            /\ output[1].submission_result.pdf_link_valid = pdf_link_valid
            /\ \A which \in Kinds :
                 /\ Flag(which) \in {0, 1}
                 /\ Flag(which) = 1 => (RegexMatch(Link(which)) /\ HeadCount(which) = 1)
                 /\ ~RegexMatch(Link(which)) => Flag(which) = 0

C7_Witness ==
  /\ variant = "json" /\ pc = "DONE"
  /\ output[1].submission_result.model_link_valid = 0
  /\ output[1].submission_result.pdf_link_valid = 1
  /\ metric_calls = 1

\* an input that lacks an expected field, or a table of fewer than two rows
Malformed ==
  IF variant = "json"
  THEN \/ ground_truth_file.json /\ ~ItemsOk(ground_truth_file.data, "true_label")
       \/ /\ submission_file.json
          /\ \/ ~ItemsOk(submission_file.data, "prediction")
             \/ ~({"HF_Link", "PDF_Link"} \subseteq DOMAIN submission_file.data)
  ELSE Len(ground_truth_file) < 2 \/ Len(submission_file) < 2

\* C8: a malformed input always ends the call in failure: nothing is
\* returned for it, a table of fewer than two rows is not read as an empty
\* record set, and a missing link field is not validated as an empty link.
C8_MalformedInputFails ==
  Malformed =>
    /\ pc # "DONE" /\ output = << >>
    /\ (variant = "csv" /\ Len(ground_truth_file) < 2) => pc \in {"load_gt", "FAILED"}
    /\ (variant = "json" /\ submission_file.json) =>
         /\ "HF_Link" \notin DOMAIN submission_file.data => ~Validated("model")
         /\ "PDF_Link" \notin DOMAIN submission_file.data => ~Validated("pdf")

\* the step of the pipeline a statement belongs to: 1 Load(ground_truth),
\* 2 Load(submission), 3 ValidateURLs, 4 Reconcile, 5 ComputeMetrics,
\* 6 Notify, 7 AssembleResult, then the two terminal states.  Building an
\* id-to-label mapping is part of loading its file.
StepOf(p) ==
  IF p \in {"load_gt", "parse_gt"} THEN 1
  ELSE IF p \in {"load_sub", "extract_links", "parse_sub"} THEN 2
  ELSE IF p \in {"validate_model", "head_model", "status_model", "validate_pdf",
                 "head_pdf", "status_pdf", "check_links"} THEN 3
  ELSE IF p = "reconcile" THEN 4
  ELSE IF p \in {"extract", "metrics"} THEN 5
  ELSE IF p = "notify" THEN 6
  ELSE IF p \in {"assemble", "return"} THEN 7
  ELSE 8

\* C9: the call passes through the steps in their order and never goes back
\* to an earlier one: no step starts before every earlier step is complete
\* (no url is probed before both mappings are built), and DONE and FAILED
\* are left by no step.
C9_LinearPass ==
  [][/\ StepOf(pc') >= StepOf(pc)
     /\ pc \in {"DONE", "FAILED"} => pc' = pc]_vars

\* the first cell of the metadata row of a link
Cell(which) == submission_rows[IF which = "model" THEN 1 ELSE 2][1]

\* the links have been taken from the two metadata rows
LinksExtracted ==
  /\ variant = "csv"
  /\ pc \notin {"load_gt", "load_sub", "extract_links"}
  /\ Len(submission_rows) >= 2
  /\ Len(submission_rows[1]) >= 1 /\ Len(submission_rows[2]) >= 1

\* the cell holds "http://" or "https://"
HasScheme(cell) ==
  \E i \in 1..Len(cell) :
    \/ StartsWith(Sub(cell, i, Len(cell)), Http)
    \/ StartsWith(Sub(cell, i, Len(cell)), Https)

\* the last colon of the cell is the colon of "http://" or "https://"
LastColonIsScheme(cell) ==
  /\ Positions(cell, ":") # {}
  /\ LET p == SetMax(Positions(cell, ":"))
     IN  /\ p + 2 <= Len(cell)
         /\ \/ p >= 5 /\ Sub(cell, p - 4, p + 2) = Http
            \/ p >= 6 /\ Sub(cell, p - 5, p + 2) = Https

\* the link of the row starts with "//", fails the format check and is never
\* probed, and the call does not reach the parsing of the records
SchemeLost(which) ==
  /\ StartsWith(Link(which), <<"/", "/">>)
  /\ ~RegexMatch(Link(which))
  /\ HeadCount(which) = 0
  /\ Flag(which) \in {-1, 0}
  /\ pc \notin {"parse_sub", "reconcile"} \cup PastReconcile

\* C10 as stated: in the tabular evaluate every metadata row whose link is
\* written with an explicit scheme gives a link that starts with "//", fails
\* the format check and is not probed, and the call fails before the key
\* check and the metrics.
C10_AnySchemeLost ==
  LinksExtracted =>
    \A which \in Kinds : HasScheme(Cell(which)) => SchemeLost(which)

\* C10: in the tabular evaluate every metadata row whose link is written with
\* an explicit scheme and holds no colon after the colon of the scheme gives
\* a link that starts with "//", fails the format check and is not probed,
\* and the call fails before the key check and the metrics.
C10_SchemeLostWhenLastColon ==
  LinksExtracted =>
    \A which \in Kinds : LastColonIsScheme(Cell(which)) => SchemeLost(which)

C10_Witness ==
  /\ LinksExtracted
  /\ pc = "FAILED" /\ error = "ValueError(links)"
  /\ LastColonIsScheme(Cell("model")) /\ LastColonIsScheme(Cell("pdf"))
  /\ model_link_valid = 0 /\ pdf_link_valid = 0
  /\ head_calls = << >>

====
